---------------------------- MODULE Spec2Model ----------------------------
(***************************************************************************)
(* Model of the React component AnalysisResults                            *)
(* (src/ecs_fargate_app/frontend/src/components/AnalysisResults.tsx).      *)
(*                                                                         *)
(* The component is a function of its props and of five useState cells.    *)
(* Every event handler runs to completion and is followed by a re-render,  *)
(* so each action below is one handler (or one continuation after an       *)
(* await) together with the render that follows it.  What the component    *)
(* calls on its collaborators (props callbacks, analyzerApi, the chat      *)
(* context, console) during a step is recorded, in call order, in `calls`. *)
(*                                                                         *)
(* Three specifications over the same variables and actions:               *)
(*   SpecView     rendering, filtering and the row chat button, over every *)
(*                results prop within the bounds;                          *)
(*   SpecDetails  selection, filter, prop updates, details requests and    *)
(*                the details modal;                                       *)
(*   SpecIntents  selection, preferences, the parent's flags and the       *)
(*                generate / cancel / download buttons.                    *)
(***************************************************************************)
EXTENDS Integers, Sequences, FiniteSets, TLC

(***************************************************************************)
(* Bounds of the model.                                                    *)
(***************************************************************************)
MaxResults == 2     \* results.length in the enumerated results props
MaxRows == 3        \* total number of best practices in an enumerated results prop
MaxInFlight == 2    \* cap on un-settled calls of one analyzerApi method

(***************************************************************************)
(* JavaScript values.  null and undefined are sentinel strings; a value is *)
(* truthy when it is none of '', null, undefined (only strings are tested  *)
(* for truthiness here; booleans are used directly).                       *)
(***************************************************************************)
Null == "<null>"
Undefined == "<undefined>"
Truthy(v) == v \notin {"", Null, Undefined}

Range(s) == {s[i] : i \in 1..Len(s)}

RECURSIVE Concat(_)
\* Array.prototype.flat on a sequence of sequences (the "flat" of flatMap).
Concat(ss) == IF ss = <<>> THEN <<>> ELSE Head(ss) \o Concat(Tail(ss))

RECURSIVE SumSeq(_)
SumSeq(ns) == IF ns = <<>> THEN 0 ELSE Head(ns) + SumSeq(Tail(ns))

\* String.prototype.startsWith on sequences of characters.
StartsWith(s, prefix) ==
    /\ Len(prefix) <= Len(s)
    /\ \A i \in 1..Len(prefix) : s[i] = prefix[i]

ImagePrefix == <<"i", "m", "a", "g", "e", "/">>

(***************************************************************************)
(* The data the props are drawn from.                                      *)
(***************************************************************************)
\* BestPractice objects (../types); recommendations is free exactly where a
\* cell can show it, and non-empty elsewhere.
BestPractices ==
    { [id |-> "BP" \o n, name |-> "bp" \o n, relevant |-> r, applied |-> a,
       reasonApplied |-> "reasonApplied-" \o n,
       reasonNotApplied |-> "reasonNotApplied-" \o n,
       recommendations |-> rec] :
         <<n, r, a, rec>> \in
           { <<"1", FALSE, TRUE, "rec1">>, <<"2", FALSE, FALSE, "rec2">>,
             <<"3", TRUE, TRUE, "rec3">>, <<"4", TRUE, FALSE, "rec4">>,
             <<"5", TRUE, FALSE, "">> } }

\* pillar / question / questionId of an AnalysisResult.
Questions ==
    { [pillar |-> "Security", question |-> "SEC 1", questionId |-> "sec-1"],
      [pillar |-> "Reliability", question |-> "REL 1", questionId |-> "rel-1"] }

Pillars == <<"Reliability", "Security">>

\* The results prop made of the questions qs, result i holding the next
\* lens[i] best practices of bps.
ResultsOf(qs, lens, bps) ==
    [i \in 1..Len(qs) |->
        LET before == SumSeq(SubSeq(lens, 1, i - 1)) IN
        [pillar |-> qs[i].pillar, question |-> qs[i].question,
         questionId |-> qs[i].questionId,
         bestPractices |-> SubSeq(bps, before + 1, before + lens[i])]]

(***************************************************************************)
(* State.                                                                  *)
(***************************************************************************)
VARIABLES
    \* props (owned by the parent)
    results, isDownloading, isImplementing, isLoadingDetails, uploadedFileType,
    fileId, selectedIaCType, lensAliasArn, lensName, outputLanguage,
    \* useState cells
    preferences, selectedItems, detailsModalVisible, detailsContent, detailsError,
    \* useCollection state and what the last render computed
    propertyFilter, flattenedBestPractices, counts, items,
    \* calls awaiting settlement, and the calls made by the last step
    detailsRequests, cancelRequests, calls

props == <<results, isDownloading, isImplementing, isLoadingDetails, uploadedFileType,
           fileId, selectedIaCType, lensAliasArn, lensName, outputLanguage>>
sessionProps == <<results, fileId, selectedIaCType, lensAliasArn, lensName, outputLanguage>>
flagProps == <<isDownloading, isImplementing, uploadedFileType>>
detailsState == <<detailsModalVisible, detailsContent, detailsError>>
localState == <<preferences, selectedItems, detailsModalVisible, detailsContent, detailsError>>
view == <<flattenedBestPractices, counts, items>>
vars == <<props, localState, propertyFilter, view, detailsRequests, cancelRequests, calls>>

(***************************************************************************)
(* Render: lines 107-164.                                                  *)
(***************************************************************************)
\* { ...bp, pillar, question, questionId }: the fields of bp, the three named
\* ones taken from the result.
EnhanceQuestionAsPillar(result, bp) ==
    [f \in DOMAIN bp \cup {"pillar", "question", "questionId"} |->
        IF f = "pillar" THEN result.question
        ELSE IF f \in {"question", "questionId"} THEN result[f] ELSE bp[f]]
Enhance(result, bp) ==
    [f \in DOMAIN bp \cup {"pillar", "question", "questionId"} |->
        IF f \in {"pillar", "question", "questionId"} THEN result[f] ELSE bp[f]]

EnhanceAll(result) ==
    [i \in 1..Len(result.bestPractices) |-> Enhance(result, result.bestPractices[i])]

Flatten(rs) == Concat([i \in 1..Len(rs) |-> EnhanceAll(rs[i])])

RECURSIVE ReduceNotRelevantUnapplied(_, _)
ReduceNotRelevantUnapplied(practices, acc) ==
    IF practices = <<>> THEN acc
    ELSE LET practice == Head(practices) IN
         ReduceNotRelevantUnapplied(Tail(practices),
                [applied |-> acc.applied + (IF practice.applied THEN 1 ELSE 0),
                 notApplied |-> acc.notApplied
                              + (IF practice.relevant /\ ~practice.applied THEN 1 ELSE 0),
                 notRelevant |-> acc.notRelevant
                              + (IF ~practice.relevant /\ ~practice.applied THEN 1 ELSE 0)])

RECURSIVE Reduce(_, _)
\* practices.reduce(...) of lines 108-115.
Reduce(practices, acc) ==
    IF practices = <<>> THEN acc
    ELSE LET practice == Head(practices) IN
         Reduce(Tail(practices),
                [applied |-> acc.applied
                              + (IF practice.relevant /\ practice.applied THEN 1 ELSE 0),
                 notApplied |-> acc.notApplied
                              + (IF practice.relevant /\ ~practice.applied THEN 1 ELSE 0),
                 notRelevant |-> acc.notRelevant
                              + (IF ~practice.relevant THEN 1 ELSE 0)])

getBestPracticeCounts(practices) ==
    LET c == Reduce(practices, [applied |-> 0, notApplied |-> 0, notRelevant |-> 0])
    IN  [applied |-> c.applied, notApplied |-> c.notApplied, notRelevant |-> c.notRelevant,
         totalReviewed |-> c.applied + c.notApplied + c.notRelevant]


\* useCollection(flattenedBestPractices, {propertyFiltering, pagination, sorting}):
\* the rows matching the filter query, sorted on the default sorting field
\* 'pillar', first page.  propertyFilter is "" for a query without tokens and
\* a pillar name for the query pillar = <name>.
PillarRank(p) == CHOOSE i \in 1..Len(Pillars) : Pillars[i] = p

RECURSIVE InsertByPillar(_, _)
InsertByPillar(row, sorted) ==
    IF sorted = <<>> THEN <<row>>
    ELSE IF PillarRank(row.pillar) < PillarRank(Head(sorted).pillar)
         THEN <<row>> \o sorted
         ELSE <<Head(sorted)>> \o InsertByPillar(row, Tail(sorted))

RECURSIVE SortByPillar(_)
SortByPillar(rows) ==
    IF rows = <<>> THEN <<>>
    ELSE InsertByPillar(rows[Len(rows)], SortByPillar(SubSeq(rows, 1, Len(rows) - 1)))

CollectionItems(rows, query, pageSize) ==
    LET Matches(row) == query = "" \/ row.pillar = query
        sorted == SortByPillar(SelectSeq(rows, Matches))
    IN  SubSeq(sorted, 1, IF Len(sorted) < pageSize THEN Len(sorted) ELSE pageSize)

\* One render of the component body: lines 124-164.
Render ==
    /\ flattenedBestPractices' = Flatten(results')
    /\ counts' = getBestPracticeCounts(flattenedBestPractices')
    /\ items' = CollectionItems(flattenedBestPractices', propertyFilter', preferences'.pageSize)

(***************************************************************************)
(* Table cells: lines 295-346.                                             *)
(***************************************************************************)
StatusCell(item) ==
    IF ~item.relevant
    THEN [type |-> "stopped", text |-> "strings.analysisResults.notRelevant"]
    ELSE [type |-> IF item.applied THEN "success" ELSE "error",
          text |-> IF item.applied THEN "strings.analysisResults.applied"
                                   ELSE "strings.analysisResults.notApplied"]

ReasonCell(item) ==
    IF ~item.relevant THEN "N/A"
    ELSE IF item.applied THEN item.reasonApplied ELSE item.reasonNotApplied

\* text: what the cell shows; chatButton: whether the inline AI chat button
\* (onClick = handleAiChatClick(item)) is rendered next to it.
RecommendationsCellIgnoringApplied(item) ==
    IF ~item.relevant THEN [text |-> "N/A", chatButton |-> FALSE]
    ELSE IF Truthy(item.recommendations)
         THEN [text |-> item.recommendations, chatButton |-> TRUE]
         ELSE [text |-> "N/A", chatButton |-> FALSE]
RecommendationsCell(item) ==
    IF ~item.relevant THEN [text |-> "N/A", chatButton |-> FALSE]
    ELSE IF ~item.applied /\ Truthy(item.recommendations)
         THEN [text |-> item.recommendations, chatButton |-> TRUE]
         ELSE [text |-> IF ~item.applied /\ Truthy(item.recommendations)
                        THEN item.recommendations ELSE "N/A",
               chatButton |-> FALSE]

ChatPrompt(item) ==
    "Can you provide more detailed recommendations and instructions for the best practice '"
        \o item.name \o "' of the '" \o item.pillar \o "' pillar?"

Call(fn, arg) == [fn |-> fn, arg |-> arg]

(***************************************************************************)
(* Initial states.                                                         *)
(***************************************************************************)
DefaultVisibleContent == <<"pillar", "question", "name", "status", "reason", "recommendations">>

BP(n) == CHOOSE bp \in BestPractices : bp.id = "BP" \o n
Q(p) == CHOOSE q \in Questions : q.pillar = p
Result(p, bps) ==
    [pillar |-> Q(p).pillar, question |-> Q(p).question, questionId |-> Q(p).questionId,
     bestPractices |-> bps]

\* Two uploads the parent can show: what it passes for results, fileId,
\* selectedIaCType, lensAliasArn, lensName and outputLanguage.
Sessions ==
    { [results |-> <<Result("Security", <<BP("4")>>), Result("Reliability", <<BP("3")>>)>>,
       fileId |-> "file-A", selectedIaCType |-> "CloudFormation",
       lensAliasArn |-> Undefined, lensName |-> "Well-Architected Framework",
       outputLanguage |-> "en"],
      [results |-> <<Result("Reliability", <<BP("5")>>)>>,
       fileId |-> "file-B", selectedIaCType |-> "Terraform",
       lensAliasArn |-> "arn:aws:wellarchitected::aws:lens/serverless",
       lensName |-> "Serverless Lens", outputLanguage |-> "ja"] }

FileTypes ==
    { <<"i", "m", "a", "g", "e", "/", "p", "n", "g">>,
      <<"i", "m", "a", "g", "e">>,
      <<"t", "e", "x", "t", "/", "x">> }

\* The state after the first render, the props being given.
Constructed(rs, session, fileType) ==
    /\ results = rs
    /\ fileId = session.fileId
    /\ selectedIaCType = session.selectedIaCType
    /\ lensAliasArn = session.lensAliasArn
    /\ lensName = session.lensName
    /\ outputLanguage = session.outputLanguage
    /\ isDownloading = FALSE
    /\ isImplementing = FALSE
    /\ isLoadingDetails = FALSE
    /\ uploadedFileType = fileType
    /\ preferences = [pageSize |-> 10, visibleContent |-> DefaultVisibleContent]
    /\ selectedItems = {}
    /\ detailsModalVisible = FALSE
    /\ detailsContent = ""
    /\ detailsError = Null
    /\ propertyFilter = ""
    /\ flattenedBestPractices = Flatten(rs)
    /\ counts = getBestPracticeCounts(Flatten(rs))
    /\ items = CollectionItems(Flatten(rs), "", 10)
    /\ detailsRequests = <<>>
    /\ cancelRequests = <<>>
    /\ calls = <<>>

Init == \E s \in Sessions, t \in FileTypes : Constructed(s.results, s, t)

\* Every results prop of at most MaxResults results and MaxRows best
\* practices, the other props fixed.
InitView ==
    \E n \in 0..MaxResults :
      \E qs \in [1..n -> Questions], lens \in [1..n -> 0..MaxRows] :
        /\ SumSeq(lens) <= MaxRows
        /\ \E bps \in [1..SumSeq(lens) -> BestPractices], s \in Sessions :
             /\ s.fileId = "file-A"
             /\ Constructed(ResultsOf(qs, lens, bps), s,
                            <<"i", "m", "a", "g", "e", "/", "p", "n", "g">>)

(***************************************************************************)
(* Table interaction.                                                      *)
(***************************************************************************)
\* PropertyFilter onChange (propertyFilterProps, line 370) and the noMatch
\* "clear filter" button (line 154, query "").
PropertyFilterChange(query) ==
    /\ query # propertyFilter
    /\ propertyFilter' = query
    /\ calls' = <<>>
    /\ UNCHANGED <<props, localState, detailsRequests, cancelRequests>>
    /\ Render

\* onSelectionChange (lines 356-358).  The Table derives detail.selectedItems
\* from the current selection and the rows it shows.
SelectionChange(selection) ==
    /\ selection \subseteq selectedItems \cup Range(items)
    /\ selection # selectedItems
    /\ selectedItems' = selection
    /\ calls' = <<>>
    /\ UNCHANGED <<props, preferences, detailsState, propertyFilter,
                   detailsRequests, cancelRequests>>
    /\ Render

\* CollectionPreferences onConfirm (lines 383-386).  A missing pageSize is 0,
\* a missing visibleContent is <<Undefined>>.
PreferencesConfirm(detail) ==
    /\ preferences' =
         [pageSize |-> IF detail.pageSize # 0 THEN detail.pageSize ELSE 10,
          visibleContent |-> IF detail.visibleContent # <<Undefined>>
                             THEN detail.visibleContent ELSE <<>>]
    /\ preferences' # preferences
    /\ calls' = <<>>
    /\ UNCHANGED <<props, selectedItems, detailsState, propertyFilter,
                   detailsRequests, cancelRequests>>
    /\ Render

PreferenceDetails ==
    { [pageSize |-> 0, visibleContent |-> <<Undefined>>],
      [pageSize |-> 25, visibleContent |-> <<"pillar", "name", "status">>],
      [pageSize |-> 100, visibleContent |-> <<Undefined>>] }

\* handleAiChatClick (lines 175-180), reached from the button of a shown row.
AiChatClick(item) ==
    /\ item \in Range(items)
    /\ RecommendationsCell(item).chatButton
    /\ calls' = <<Call("openChatWithSupportPrompt", ChatPrompt(item))>>
    /\ UNCHANGED <<props, localState, propertyFilter, detailsRequests, cancelRequests>>
    /\ Render

NextView ==
    \/ \E query \in {""} \cup Range(Pillars) : PropertyFilterChange(query)
    \/ \E item \in Range(flattenedBestPractices) : AiChatClick(item)

SpecView == InitView /\ [][NextView]_vars

(***************************************************************************)
(* The parent.                                                             *)
(***************************************************************************)
\* The parent shows another upload: new results, fileId, selectedIaCType,
\* lensAliasArn, lensName, outputLanguage props.  The useState cells of the
\* component are kept across the re-render.
SessionUpdate(session) ==
    /\ session.fileId # fileId
    /\ results' = session.results
    /\ fileId' = session.fileId
    /\ selectedIaCType' = session.selectedIaCType
    /\ lensAliasArn' = session.lensAliasArn
    /\ lensName' = session.lensName
    /\ outputLanguage' = session.outputLanguage
    /\ calls' = <<>>
    /\ UNCHANGED <<flagProps, isLoadingDetails, localState, propertyFilter,
                   detailsRequests, cancelRequests>>
    /\ Render

\* The parent changes isDownloading, isImplementing or uploadedFileType.
FlagsUpdate(downloading, implementing, fileType) ==
    /\ <<downloading, implementing, fileType>> # flagProps
    /\ isDownloading' = downloading
    /\ isImplementing' = implementing
    /\ uploadedFileType' = fileType
    /\ calls' = <<>>
    /\ UNCHANGED <<sessionProps, isLoadingDetails, localState, propertyFilter,
                   detailsRequests, cancelRequests>>
    /\ Render

(***************************************************************************)
(* Get more details: lines 76-105, 228-235, 399-406.                       *)
(***************************************************************************)
\* What a getMoreDetails promise can settle with: a result object, or a
\* thrown value (an Error with a message, or something that is no Error).
Pending ==
    [kind |-> "pending", content |-> Undefined, error |-> Undefined,
     isError |-> FALSE, message |-> Undefined]
Response(content, error) ==
    [kind |-> "response", content |-> content, error |-> error,
     isError |-> FALSE, message |-> Undefined]
Thrown(isError, message) ==
    [kind |-> "throw", content |-> Undefined, error |-> Undefined,
     isError |-> isError, message |-> message]

DetailsResponses ==
    { Response("content-1", Undefined), Response("content-2", "error-2"),
      Response("", "error-3"), Response(Undefined, Undefined) }
DetailsOutcomes ==
    DetailsResponses \cup { Thrown(TRUE, "Network Error"), Thrown(FALSE, Undefined) }

NoContentMessage == "No content received from analysis. Please try again."
FailedMessage == "Failed to get detailed analysis"

\* Where the parent's isLoadingDetails is after the calls of a step: the
\* parent keeps the flag in a state cell whose setter is setIsLoadingDetails.
LoadingAfter(cs, loading) ==
    LET sets == SelectSeq(cs, LAMBDA c : c.fn = "setIsLoadingDetails")
    IN  IF sets = <<>> THEN loading ELSE sets[Len(sets)].arg = "true"

\* disabled of the getMoreDetails Button (line 231).
GetMoreDetailsDisabledNoLoading == selectedItems = {}
GetMoreDetailsDisabled == selectedItems = {} \/ isLoadingDetails

\* The arguments of analyzerApi.getMoreDetails (lines 81-88).
GetMoreDetailsArgs ==
    [selectedItems |-> selectedItems, fileId |-> fileId,
     selectedIaCType |-> selectedIaCType, lensAliasArn |-> lensAliasArn,
     lensName |-> lensName, outputLanguage |-> outputLanguage]

\* handleGetMoreDetails up to its await (lines 77-88).
GetMoreDetailsClick ==
    /\ ~GetMoreDetailsDisabled
    /\ Len(detailsRequests) < MaxInFlight
    /\ calls' = <<Call("setIsLoadingDetails", "true"), Call("analyzerApi.getMoreDetails", "")>>
    /\ isLoadingDetails' = LoadingAfter(calls', isLoadingDetails)
    /\ detailsError' = Null
    /\ detailsRequests' =
         Append(detailsRequests, [args |-> GetMoreDetailsArgs, outcome |-> Pending])
    /\ UNCHANGED <<sessionProps, flagProps, preferences, selectedItems,
                   detailsModalVisible, detailsContent, propertyFilter, cancelRequests>>
    /\ Render

\* The promise of request i is resolved or rejected by the API client.
DetailsRespond(i, outcome) ==
    /\ i \in 1..Len(detailsRequests)
    /\ detailsRequests[i].outcome = Pending
    /\ detailsRequests' = [detailsRequests EXCEPT ![i].outcome = outcome]
    /\ calls' = <<>>
    /\ UNCHANGED <<props, localState, propertyFilter, view, cancelRequests>>

RemoveAt(s, i) == SubSeq(s, 1, i - 1) \o SubSeq(s, i + 1, Len(s))

\* line 90: if (result.error)
StoresError(o) == o.kind = "response" /\ Truthy(o.error)
\* line 94: if (result.content)
OpensModalAlways(o) == o.kind = "response"
OpensModal(o) == o.kind = "response" /\ Truthy(o.content)
\* lines 98 and 101: the setError calls of the else branch and of catch.
SetErrorCalls(o) ==
    IF o.kind = "throw"
    THEN <<Call("setError", IF o.isError THEN o.message ELSE FailedMessage)>>
    ELSE IF OpensModal(o) THEN <<>> ELSE <<Call("setError", NoContentMessage)>>
\* lines 102-104: finally { setIsLoadingDetails(false) }, on every outcome.
FinallyCallsUnlessThrown(o) ==
    IF o.kind = "throw" THEN <<>> ELSE <<Call("setIsLoadingDetails", "false")>>
FinallyCalls(o) == <<Call("setIsLoadingDetails", "false")>>

\* handleGetMoreDetails after its await (lines 90-104), for request i.
DetailsSettle(i) ==
    /\ i \in 1..Len(detailsRequests)
    /\ detailsRequests[i].outcome # Pending
    /\ LET o == detailsRequests[i].outcome IN
         /\ detailsError' = IF StoresError(o) THEN o.error ELSE detailsError
         /\ detailsContent' = IF OpensModal(o) THEN o.content ELSE detailsContent
         /\ detailsModalVisible' = IF OpensModal(o) THEN TRUE ELSE detailsModalVisible
         /\ calls' = SetErrorCalls(o) \o FinallyCalls(o)
    /\ isLoadingDetails' = LoadingAfter(calls', isLoadingDetails)
    /\ detailsRequests' = RemoveAt(detailsRequests, i)
    /\ UNCHANGED <<sessionProps, flagProps, preferences, selectedItems,
                   propertyFilter, cancelRequests>>
    /\ Render

\* DetailsModal onDismiss (line 401).
DismissModal ==
    /\ detailsModalVisible
    /\ detailsModalVisible' = FALSE
    /\ calls' = <<>>
    /\ UNCHANGED <<props, preferences, selectedItems, detailsContent, detailsError,
                   propertyFilter, detailsRequests, cancelRequests>>
    /\ Render

NextDetails ==
    \/ \E selection \in SUBSET (selectedItems \cup Range(items)) : SelectionChange(selection)
    \/ \E query \in {""} \cup Range(Pillars) : PropertyFilterChange(query)
    \/ \E session \in Sessions : SessionUpdate(session)
    \/ GetMoreDetailsClick
    \/ \E i \in 1..MaxInFlight, outcome \in DetailsOutcomes : DetailsRespond(i, outcome)
    \/ \E i \in 1..MaxInFlight : DetailsSettle(i)
    \/ DismissModal

SpecDetails == Init /\ [][NextDetails]_vars

(***************************************************************************)
(* Generate document, cancel, download: lines 72-74, 166-172, 236-259.     *)
(***************************************************************************)
\* disabled of the generateIacDocument Button (line 239).
GenerateIacDisabledNoDownloadCheck ==
    isImplementing \/ ~StartsWith(uploadedFileType, ImagePrefix)
GenerateIacDisabled ==
    isDownloading \/ isImplementing \/ ~StartsWith(uploadedFileType, ImagePrefix)

\* disabled of the downloadAnalysis Button (line 255).
DownloadDisabled == isDownloading \/ isImplementing

\* {isImplementing && <Button onClick={handleCancelGeneration}>} (line 244).
CancelButtonShown == isImplementing

\* handleGenerateIacClick (lines 72-74).
GenerateIacClick ==
    /\ ~GenerateIacDisabled
    /\ calls' = <<Call("onGenerateIacDocument", "")>>
    /\ UNCHANGED <<props, localState, propertyFilter, detailsRequests, cancelRequests>>
    /\ Render

\* onClick={onDownloadRecommendations} (line 253).
DownloadClick ==
    /\ ~DownloadDisabled
    /\ calls' = <<Call("onDownloadRecommendations", "")>>
    /\ UNCHANGED <<props, localState, propertyFilter, detailsRequests, cancelRequests>>
    /\ Render

\* handleCancelGeneration up to its await (lines 167-168).
CancelClick ==
    /\ CancelButtonShown
    /\ Len(cancelRequests) < MaxInFlight
    /\ cancelRequests' = Append(cancelRequests, "pending")
    /\ calls' = <<Call("analyzerApi.cancelIaCGeneration", "")>>
    /\ UNCHANGED <<props, localState, propertyFilter, detailsRequests>>
    /\ Render

\* The promise of cancel call i is fulfilled or rejected by the API client.
CancelRespond(i, outcome) ==
    /\ i \in 1..Len(cancelRequests)
    /\ cancelRequests[i] = "pending"
    /\ cancelRequests' = [cancelRequests EXCEPT ![i] = outcome]
    /\ calls' = <<>>
    /\ UNCHANGED <<props, localState, propertyFilter, view, detailsRequests>>

\* catch (error) { console.error(...) } (lines 169-171).
CancelCatchCallsSetError ==
    <<Call("console.error", "Failed to cancel IaC generation:"),
      Call("setError", "Failed to cancel IaC generation")>>
CancelCatchCalls == <<Call("console.error", "Failed to cancel IaC generation:")>>

\* handleCancelGeneration after its await (lines 168-172), for call i.
CancelSettle(i) ==
    /\ i \in 1..Len(cancelRequests)
    /\ cancelRequests[i] # "pending"
    /\ calls' = IF cancelRequests[i] = "rejected" THEN CancelCatchCalls ELSE <<>>
    /\ cancelRequests' = RemoveAt(cancelRequests, i)
    /\ UNCHANGED <<props, localState, propertyFilter, detailsRequests>>
    /\ Render

NextIntents ==
    \/ \E selection \in SUBSET (selectedItems \cup Range(items)) : SelectionChange(selection)
    \/ \E detail \in PreferenceDetails : PreferencesConfirm(detail)
    \/ \E d \in BOOLEAN, m \in BOOLEAN, t \in FileTypes : FlagsUpdate(d, m, t)
    \/ GenerateIacClick
    \/ DownloadClick
    \/ CancelClick
    \/ \E i \in 1..MaxInFlight, outcome \in {"fulfilled", "rejected"} : CancelRespond(i, outcome)
    \/ \E i \in 1..MaxInFlight : CancelSettle(i)

SpecIntents == Init /\ [][NextIntents]_vars

(***************************************************************************)
(* Properties.                                                             *)
(***************************************************************************)
Made(fn) == \E k \in 1..Len(calls) : calls[k].fn = fn
MadeNext(fn) == \E k \in 1..Len(calls') : calls'[k].fn = fn

\* Number of rows that come before those of result i.
RowsBefore(rs, i) == SumSeq([k \in 1..(i - 1) |-> Len(rs[k].bestPractices)])

\* C1: the flattened rows are the best practices of the results, in result
\* order and then best-practice order; each row keeps every field of its
\* best practice and carries pillar, question and questionId of its result;
\* the number of rows is the sum of the bestPractices lengths.
C1_FlattenedRows ==
    /\ Len(flattenedBestPractices)
         = SumSeq([i \in 1..Len(results) |-> Len(results[i].bestPractices)])
    /\ \A i \in 1..Len(results) : \A j \in 1..Len(results[i].bestPractices) :
         LET row == flattenedBestPractices[RowsBefore(results, i) + j]
             bp == results[i].bestPractices[j]
         IN  /\ DOMAIN row = DOMAIN bp \cup {"pillar", "question", "questionId"}
             /\ \A f \in DOMAIN bp : row[f] = bp[f]
             /\ row.pillar = results[i].pillar
             /\ row.question = results[i].question
             /\ row.questionId = results[i].questionId

\* Two results of different pillars, the first with two best practices,
\* rendered again after a filter change.
C1_Witness ==
    /\ Len(results) = 2
    /\ propertyFilter = results[2].pillar
    /\ Len(items) = 1
    /\ results[1].pillar # results[2].pillar
    /\ Len(results[1].bestPractices) = 2
    /\ Len(results[2].bestPractices) = 1
    /\ results[1].bestPractices[1] # results[1].bestPractices[2]
    /\ Len(flattenedBestPractices) = 3

\* C2: a details request is issued only while a row is selected and
\* isLoadingDetails is false, at most one is in flight at any time, and the
\* request carries the selection of the moment of the click together with
\* fileId, selectedIaCType, lensAliasArn, lensName and outputLanguage.
C2_OneDetailsRequest ==
    [][/\ Len(detailsRequests') <= 1
       /\ Len(detailsRequests') > Len(detailsRequests) =>
            /\ selectedItems # {}
            /\ ~isLoadingDetails
            /\ LET sent == detailsRequests'[Len(detailsRequests')].args IN
                 /\ sent.selectedItems = selectedItems
                 /\ sent.fileId = fileId
                 /\ sent.selectedIaCType = selectedIaCType
                 /\ sent.lensAliasArn = lensAliasArn
                 /\ sent.lensName = lensName
                 /\ sent.outputLanguage = outputLanguage]_vars

\* A request of two rows is in flight, and the selection and the upload
\* have changed since it was sent.
C2_Witness ==
    /\ Len(detailsRequests) = 1
    /\ Cardinality(detailsRequests[1].args.selectedItems) = 2
    /\ selectedItems # detailsRequests[1].args.selectedItems
    /\ detailsRequests[1].args.fileId # fileId
    /\ isLoadingDetails

\* C3: the loading flag is set to true before the request is sent, is true
\* for as long as a details request is in flight, and is false again once
\* the request has settled, whatever the outcome.
C3_LoadingFlag ==
    /\ isLoadingDetails <=> (detailsRequests # <<>>)
    /\ \A k \in 1..Len(calls) :
         calls[k].fn = "analyzerApi.getMoreDetails" =>
            \E j \in 1..(k - 1) : calls[j] = Call("setIsLoadingDetails", "true")

\* The request threw and has settled.
C3_Witness ==
    /\ calls = <<Call("setError", "Network Error"), Call("setIsLoadingDetails", "false")>>
    /\ detailsRequests = <<>>
    /\ ~isLoadingDetails

HasContent(o) == o.kind = "response" /\ o.content \notin {"", Undefined}
HasErrorField(o) == o.kind = "response" /\ o.error \notin {"", Undefined}

\* C6: when a details request settles, the modal is opened and the stored
\* content replaced if and only if the response has non-empty content;
\* without content setError gets the no-content message and modal and
\* content stay as they are; on a throw setError gets the exception's
\* message (or the fixed message for a non-Error) and modal, content and
\* details error stay as they are; a response with an error and content
\* stores the error and opens the modal without calling setError.
C6_DetailsSettlement ==
    [][\A i \in 1..Len(detailsRequests) :
         (detailsRequests[i].outcome # Pending
            /\ detailsRequests' = RemoveAt(detailsRequests, i)) =>
         LET o == detailsRequests[i].outcome IN
           /\ HasContent(o) =>
                /\ detailsModalVisible'
                /\ detailsContent' = o.content
                /\ ~MadeNext("setError")
           /\ ~HasContent(o) =>
                /\ detailsModalVisible' = detailsModalVisible
                /\ detailsContent' = detailsContent
           /\ (o.kind = "response" /\ ~HasContent(o)) =>
                \E k \in 1..Len(calls') : calls'[k] = Call("setError", NoContentMessage)
           /\ o.kind = "throw" =>
                /\ \E k \in 1..Len(calls') :
                     calls'[k] = Call("setError",
                                      IF o.isError THEN o.message ELSE FailedMessage)
                /\ detailsError' = detailsError
           /\ (HasErrorField(o) /\ HasContent(o)) => detailsError' = o.error]_vars

\* A response with an error and content has just settled.
C6_Witness ==
    /\ detailsModalVisible
    /\ detailsContent = "content-2"
    /\ detailsError = "error-2"
    /\ calls = <<Call("setIsLoadingDetails", "false")>>

\* C9: every row sent in a getMoreDetails request is a row of the current
\* results (the selection is a subset of the current flattened rows).
C9_SentRowsAreCurrent ==
    Made("analyzerApi.getMoreDetails") =>
        detailsRequests[Len(detailsRequests)].args.selectedItems
            \subseteq Range(flattenedBestPractices)

IsImage(fileType) == Len(fileType) >= 6 /\ SubSeq(fileType, 1, 6) = ImagePrefix

\* C4: onGenerateIacDocument is called only when the file type starts with
\* 'image/' and neither isDownloading nor isImplementing holds,
\* onDownloadRecommendations only when neither holds; each click makes that
\* one call and changes no state of the component.
C4_GenerateAndDownload ==
    [][/\ MadeNext("onGenerateIacDocument") =>
            /\ IsImage(uploadedFileType)
            /\ ~isDownloading
            /\ ~isImplementing
            /\ calls' = <<Call("onGenerateIacDocument", "")>>
            /\ UNCHANGED <<localState, propertyFilter>>
       /\ MadeNext("onDownloadRecommendations") =>
            /\ ~isDownloading
            /\ ~isImplementing
            /\ calls' = <<Call("onDownloadRecommendations", "")>>
            /\ UNCHANGED <<localState, propertyFilter>>]_vars

\* The document was requested while rows are selected.
C4_Witness ==
    /\ calls = <<Call("onGenerateIacDocument", "")>>
    /\ selectedItems # {}
    /\ preferences.pageSize = 25

\* C5: the cancel control is offered exactly while isImplementing; a click
\* calls analyzerApi.cancelIaCGeneration once; when that call fails,
\* setError is not called and selection, preferences, details content,
\* details error, modal visibility and loading flag stay as they are.
C5_CancelGeneration ==
    /\ [](CancelButtonShown <=> isImplementing)
    /\ [][/\ MadeNext("analyzerApi.cancelIaCGeneration") =>
               /\ isImplementing
               /\ calls' = <<Call("analyzerApi.cancelIaCGeneration", "")>>
               /\ Len(cancelRequests') = Len(cancelRequests) + 1
          /\ \A i \in 1..Len(cancelRequests) :
               (cancelRequests[i] = "rejected"
                  /\ cancelRequests' = RemoveAt(cancelRequests, i)) =>
               /\ ~MadeNext("setError")
               /\ UNCHANGED <<localState, isLoadingDetails>>]_vars

\* A cancel call has failed and its catch block has run.
C5_Witness ==
    /\ Made("console.error")
    /\ selectedItems # {}
    /\ isImplementing

\* C7: status, reason and recommendations of a row follow from relevant,
\* applied and recommendations: not relevant -> 'not relevant', N/A, N/A
\* whatever applied is; relevant and applied -> applied, reasonApplied, N/A;
\* relevant and not applied -> not applied, reasonNotApplied, and the
\* recommendations with the chat button when non-empty, else N/A.  The chat
\* is opened from the table only for a relevant, not applied row with
\* recommendations, with a prompt naming its name and pillar.
C7_Cells ==
    /\ \A k \in 1..Len(flattenedBestPractices) :
         LET row == flattenedBestPractices[k]
             rec == RecommendationsCell(row)
         IN  /\ ~row.relevant =>
                  /\ StatusCell(row).text = "strings.analysisResults.notRelevant"
                  /\ ReasonCell(row) = "N/A"
                  /\ rec = [text |-> "N/A", chatButton |-> FALSE]
             /\ (row.relevant /\ row.applied) =>
                  /\ StatusCell(row).text = "strings.analysisResults.applied"
                  /\ ReasonCell(row) = row.reasonApplied
                  /\ rec = [text |-> "N/A", chatButton |-> FALSE]
             /\ (row.relevant /\ ~row.applied) =>
                  /\ StatusCell(row).text = "strings.analysisResults.notApplied"
                  /\ ReasonCell(row) = row.reasonNotApplied
                  /\ rec = IF row.recommendations # ""
                           THEN [text |-> row.recommendations, chatButton |-> TRUE]
                           ELSE [text |-> "N/A", chatButton |-> FALSE]
    /\ \A k \in 1..Len(calls) :
         calls[k].fn = "openChatWithSupportPrompt" =>
            \E row \in Range(flattenedBestPractices) :
                /\ row.relevant
                /\ ~row.applied
                /\ row.recommendations # ""
                /\ calls[k].arg =
                     "Can you provide more detailed recommendations and instructions for the best practice '"
                        \o row.name \o "' of the '" \o row.pillar \o "' pillar?"

\* The chat was opened from a table that also holds an applied row that is
\* not relevant and a not applied row without recommendations.
C7_Witness ==
    /\ Made("openChatWithSupportPrompt")
    /\ \E row \in Range(flattenedBestPractices) : ~row.relevant /\ row.applied
    /\ \E row \in Range(flattenedBestPractices) :
         row.relevant /\ ~row.applied /\ row.recommendations = ""

Count(rows, P(_)) == Cardinality({k \in 1..Len(rows) : P(rows[k])})

\* C8: every flattened row is counted in exactly one of applied (relevant
\* and applied), notApplied (relevant, not applied), notRelevant (not
\* relevant); totalReviewed is their sum and the number of flattened rows,
\* whatever the filter shows.
C8_CountsPartition ==
    /\ counts.applied
         = Count(flattenedBestPractices, LAMBDA r : r.relevant /\ r.applied)
    /\ counts.notApplied
         = Count(flattenedBestPractices, LAMBDA r : r.relevant /\ ~r.applied)
    /\ counts.notRelevant = Count(flattenedBestPractices, LAMBDA r : ~r.relevant)
    /\ counts.totalReviewed = counts.applied + counts.notApplied + counts.notRelevant
    /\ counts.totalReviewed = Len(flattenedBestPractices)
    /\ counts.totalReviewed
         = SumSeq([i \in 1..Len(results) |-> Len(results[i].bestPractices)])

\* One row of each kind, the filter hiding some of them.
C8_Witness ==
    /\ counts.applied = 1
    /\ counts.notApplied = 1
    /\ counts.notRelevant = 1
    /\ propertyFilter # ""
    /\ Len(items) < Len(flattenedBestPractices)
    /\ Len(items) > 0

============================================================================
